---------------------------- MODULE Spec2Model ----------------------------
(***************************************************************************)
(* A model of score.init: the DependencySolver of dependency.py and the    *)
(* initialization / finalization orchestration of initializer.py.          *)
(***************************************************************************)
EXTENDS Integers, Sequences, FiniteSets, TLC

(***************************************************************************)
(* Bounds                                                                  *)
(***************************************************************************)
\* Node identifiers handed to the solver are 1..MaxNodes.
MaxNodes == 3
\* add_dependency is not called once the map holds MaxEdges edges.
MaxEdges == 3

Nodes == 1..MaxNodes
\* The default of add_dependency's parameter `to` (None): no edge is added.
NoNode == 0

(***************************************************************************)
(* Generic helpers                                                         *)
(***************************************************************************)
Range(s) == {s[i] : i \in DOMAIN s}

\* Every order in which the members of S can be iterated.
Orderings(S) == {p \in [1..Cardinality(S) -> S] : Range(p) = S}

\* The sequence s without the entries equal to x (del d[x] on a dict's keys).
WithoutKey(s, x) == SelectSeq(s, LAMBDA y : y # x)

\* The number of occurrences of x in s.
Occurrences(s, x) == Cardinality({i \in DOMAIN s : s[i] = x})

EmptyMap == [n \in {} |-> {}]

(***************************************************************************)
(* Variables: the solver's, those of _init, those of _finalize             *)
(***************************************************************************)
VARIABLES order, deps, pc, sorted_, dkeys, passList, idx, updated, loop, pre, hist

VARIABLES hasModulesKey, modconf, modinfo, ipc, modules, scanIdx, missing,
          dependency_map, sortedModules, setupIdx, initialized, calls, iresult

VARIABLES score_modules, script, fpc, fidx, finalized, deferred, retryOrder,
          attempts, fresult

solverVars == <<order, deps, pc, sorted_, dkeys, passList, idx, updated, loop, pre, hist>>

initVars == <<hasModulesKey, modconf, modinfo, ipc, modules, scanIdx, missing,
              dependency_map, sortedModules, setupIdx, initialized, calls, iresult>>

finVars == <<score_modules, script, fpc, fidx, finalized, deferred, retryOrder,
             attempts, fresult>>

vars == <<solverVars, initVars, finVars>>

(***************************************************************************)
(* DependencySolver: state                                                 *)
(*   order, deps  self._dependencies: its keys in insertion order, and the *)
(*                set each key maps to                                     *)
(*   pc           where the solver is: "idle", inside solve() ("seed",     *)
(*                "for", "check", "walk"), or how solve() ended            *)
(*                ("returned", "raised", "crashed")                        *)
(*   sorted_, dkeys, passList, idx, updated, loop: the locals of solve();  *)
(*                dkeys are the keys of its local dict `dependencies`,     *)
(*                whose values are the very set objects of deps            *)
(*   pre          deps as it was when solve() was called                   *)
(*   hist         the last add_dependency / remove_dependency pair and the *)
(*                map before it                                            *)
(***************************************************************************)
NoHist ==
    [phase |-> "none", from |-> NoNode, to |-> NoNode, order0 |-> <<>>, deps0 |-> EmptyMap]

EdgeCount(d) == Cardinality({e \in (DOMAIN d) \X Nodes : e[2] \in d[e[1]]})

\* Every node of the map: the tracked ones and those only referenced.
AllNodes(d) == DOMAIN d \cup UNION {d[n] : n \in DOMAIN d}

SolverInit ==
    /\ order = <<>>
    /\ deps = EmptyMap
    /\ pc = "idle"
    /\ sorted_ = <<>>
    /\ dkeys = <<>>
    /\ passList = <<>>
    /\ idx = 0
    /\ updated = FALSE
    /\ loop = <<>>
    /\ pre = EmptyMap
    /\ hist = NoHist

\* No call of solve() is running.
Quiescent == pc \in {"idle", "returned", "raised", "crashed"}

\* The locals of a finished solve() are gone when the next call starts.
ForgetSolve ==
    /\ pc' = "idle"
    /\ sorted_' = <<>>
    /\ dkeys' = <<>>
    /\ passList' = <<>>
    /\ idx' = 0
    /\ updated' = FALSE
    /\ loop' = <<>>
    /\ pre' = EmptyMap

(***************************************************************************)
(* add_dependency, remove_dependency and the queries                       *)
(***************************************************************************)
\* self._dependencies after add_dependency(from, to).
AddTo(d, from, to) ==
    [n \in DOMAIN d \cup {from} |->
        (IF n \in DOMAIN d THEN d[n] ELSE {})
            \cup (IF n = from /\ to # NoNode THEN {to} ELSE {})]

RemoveFromClearsAll(d, from, to) ==
    IF from \notin DOMAIN d THEN d ELSE [d EXCEPT ![from] = {}]

\* self._dependencies after remove_dependency(from, to).
RemoveFrom(d, from, to) ==
    IF from \notin DOMAIN d THEN d ELSE [d EXCEPT ![from] = @ \ {to}]

AddDependency(from, to) ==
    /\ Quiescent
    /\ EdgeCount(AddTo(deps, from, to)) <= MaxEdges
    /\ order' = IF from \in DOMAIN deps THEN order ELSE Append(order, from)
    /\ deps' = AddTo(deps, from, to)
    /\ ForgetSolve
    /\ UNCHANGED <<initVars, finVars>>

RemoveDependency(from, to) ==
    /\ Quiescent
    /\ deps' = RemoveFrom(deps, from, to)
    /\ order' = order
    /\ ForgetSolve
    /\ UNCHANGED <<initVars, finVars>>

\* add_dependency(from, to), remembering the map it was called on.
RecordedAdd(from, to) ==
    /\ hist.phase = "none"
    /\ AddDependency(from, to)
    /\ hist' = [phase |-> "added", from |-> from, to |-> to,
                order0 |-> order, deps0 |-> deps]

\* The call after a remembered add_dependency(from, to):
\* remove_dependency(from, to).
RecordedRemove ==
    /\ hist.phase = "added"
    /\ RemoveDependency(hist.from, hist.to)
    /\ hist' = [hist EXCEPT !.phase = "removed"]

\* direct_dependencies(node): a list in the set's iteration order, so a set.
DirectDependencies(d, node) == IF node \notin DOMAIN d THEN {} ELSE d[node]

\* direct_dependents(node) over the dict whose keys, in order, are o.
DirectDependents(o, d, node) ==
    IF node \notin DOMAIN d THEN <<>>
    ELSE SelectSeq(o, LAMBDA other : ~(other = node \/ node \notin d[other]))

HasDirectDependency(d, from, to) == from \in DOMAIN d /\ to \in d[from]


(***************************************************************************)
(* solve()                                                                 *)
(***************************************************************************)
\* The dependencies of `item` that are no keys of self._dependencies.
UntrackedDeps(d, item) == d[item] \ DOMAIN d

\* deps.intersection(sorted_)
ToRemove(itemDeps, s) == itemDeps \cap Range(s)

FullyResolvedWhenAnyIs(itemDeps, toRemove) == toRemove # {}

\* to_remove == deps: every remaining dependency of the item is sorted.
FullyResolved(itemDeps, toRemove) == toRemove = itemDeps

UnresolvedLeftNever(keys) == FALSE

\* `if dependencies:` after the peeling loop.
UnresolvedLeft(keys) == keys # <<>>

WalkClosedOnStartOnly(l) == l[Len(l)] = l[1]

\* The negation of the walk's `while loop[-1] not in loop[:-1]`.
WalkClosed(l) == l[Len(l)] \in Range(SubSeq(l, 1, Len(l) - 1))

\* sorted_ = [], dependencies = dict(); the first loop is about to start.
SolveBegin ==
    /\ Quiescent
    /\ pc' = "seed"
    /\ sorted_' = <<>>
    /\ dkeys' = <<>>
    /\ passList' = <<>>
    /\ idx' = 1
    /\ updated' = FALSE
    /\ loop' = <<>>
    /\ pre' = deps
    /\ UNCHANGED <<order, deps, hist>>
    /\ UNCHANGED <<initVars, finVars>>

\* solve() is called again on the solver as the last solve() left it; how the
\* first call ended, what it returned and the map it was called on are
\* remembered.
SolveAgain ==
    /\ pc \in {"returned", "raised"}
    /\ hist.phase = "none"
    /\ hist' = [phase |-> pc, from |-> NoNode, to |-> NoNode,
                order0 |-> sorted_, deps0 |-> pre]
    /\ pc' = "seed"
    /\ sorted_' = <<>>
    /\ dkeys' = <<>>
    /\ passList' = <<>>
    /\ idx' = 1
    /\ updated' = FALSE
    /\ loop' = <<>>
    /\ pre' = deps
    /\ UNCHANGED <<order, deps>>
    /\ UNCHANGED <<initVars, finVars>>

\* One iteration of `for item, item_dependencies in self._dependencies.items()`.
\* A set is iterated in an arbitrary order.
SeedStep ==
    /\ pc = "seed"
    /\ idx <= Len(order)
    /\ LET item == order[idx] IN
        IF deps[item] = {}
        THEN /\ sorted_' = Append(sorted_, item)
             /\ dkeys' = dkeys
        ELSE /\ dkeys' = Append(dkeys, item)
             /\ \E found \in Orderings(UntrackedDeps(deps, item)) :
                    sorted_' = sorted_ \o found
    /\ idx' = idx + 1
    /\ UNCHANGED <<order, deps, pc, passList, updated, loop, pre, hist>>
    /\ UNCHANGED <<initVars, finVars>>

\* The first loop is over: updated = True, and the while loop starts its
\* first pass over list(dependencies.keys()).
SeedEnd ==
    /\ pc = "seed"
    /\ idx > Len(order)
    /\ pc' = "for"
    /\ updated' = FALSE
    /\ passList' = dkeys
    /\ idx' = 1
    /\ UNCHANGED <<order, deps, sorted_, dkeys, loop, pre, hist>>
    /\ UNCHANGED <<initVars, finVars>>

\* One iteration of `for item in list(dependencies.keys())`. The set
\* dependencies[item] is the set object self._dependencies[item].
PeelStep ==
    /\ pc = "for"
    /\ idx <= Len(passList)
    /\ LET item == passList[idx]
           itemDeps == deps[item]
           toRemove == ToRemove(itemDeps, sorted_)
       IN
        IF toRemove = {}
        THEN UNCHANGED <<updated, sorted_, dkeys, deps>>
        ELSE /\ updated' = TRUE
             /\ IF FullyResolved(itemDeps, toRemove)
                THEN /\ sorted_' = Append(sorted_, item)
                     /\ dkeys' = WithoutKey(dkeys, item)
                     /\ deps' = deps
                ELSE /\ deps' = [deps EXCEPT ![item] = @ \ Range(sorted_)]
                     /\ UNCHANGED <<sorted_, dkeys>>
    /\ idx' = idx + 1
    /\ UNCHANGED <<order, pc, passList, loop, pre, hist>>
    /\ UNCHANGED <<initVars, finVars>>

\* A pass of the for loop is over: `while updated` starts the next one or
\* leaves the loop.
PassEnd ==
    /\ pc = "for"
    /\ idx > Len(passList)
    /\ IF updated
       THEN /\ updated' = FALSE
            /\ passList' = dkeys
            /\ idx' = 1
            /\ pc' = pc
       ELSE /\ pc' = "check"
            /\ UNCHANGED <<updated, passList, idx>>
    /\ UNCHANGED <<order, deps, sorted_, dkeys, loop, pre, hist>>
    /\ UNCHANGED <<initVars, finVars>>

\* `if dependencies:` and the start of the walk, or `return sorted_`.
\* set.pop() takes an arbitrary member, and raises KeyError on an empty set.
Check ==
    /\ pc = "check"
    /\ IF UnresolvedLeft(dkeys)
       THEN LET item == dkeys[1] IN
            IF deps[item] = {}
            THEN /\ pc' = "crashed"
                 /\ UNCHANGED <<loop, deps>>
            ELSE \E next \in deps[item] :
                    /\ loop' = <<item, next>>
                    /\ deps' = [deps EXCEPT ![item] = @ \ {next}]
                    /\ pc' = "walk"
       ELSE /\ pc' = "returned"
            /\ UNCHANGED <<loop, deps>>
    /\ UNCHANGED <<order, sorted_, dkeys, passList, idx, updated, pre, hist>>
    /\ UNCHANGED <<initVars, finVars>>

\* One test of `while loop[-1] not in loop[:-1]`, with the body or the raise.
\* dependencies[x] raises KeyError when x is no key of `dependencies`.
WalkStep ==
    /\ pc = "walk"
    /\ LET last == loop[Len(loop)] IN
        IF WalkClosed(loop)
        THEN /\ pc' = "raised"
             /\ UNCHANGED <<loop, deps>>
        ELSE IF last \notin Range(dkeys) \/ deps[last] = {}
             THEN /\ pc' = "crashed"
                  /\ UNCHANGED <<loop, deps>>
             ELSE \E next \in deps[last] :
                    /\ loop' = Append(loop, next)
                    /\ deps' = [deps EXCEPT ![last] = @ \ {next}]
                    /\ pc' = pc
    /\ UNCHANGED <<order, sorted_, dkeys, passList, idx, updated, pre, hist>>
    /\ UNCHANGED <<initVars, finVars>>

(***************************************************************************)
(* Ordered dictionaries and the dependency graph of the initializer        *)
(***************************************************************************)
\* A dict in insertion order is a sequence of entries [k |-> key, v |-> value].
Keys(d) == [i \in DOMAIN d |-> d[i].k]

KeySet(d) == {d[i].k : i \in DOMAIN d}

\* d[key], for a key of d.
Get(d, key) == d[CHOOSE i \in DOMAIN d : d[i].k = key].v

\* d after d[key] = value: a key already there keeps its place.
Put(d, key, value) ==
    IF key \in KeySet(d)
    THEN [i \in DOMAIN d |-> IF d[i].k = key THEN [k |-> key, v |-> value] ELSE d[i]]
    ELSE Append(d, [k |-> key, v |-> value])

\* The node None of the graph of _sorted_dependency_map.
NoneNode == <<>>

GraphEdgesWithoutSelfEdges(dm) ==
    {<<NoneNode, m>> : m \in {k \in KeySet(dm) : Get(dm, k) = {}}}
        \cup UNION {{<<dep, m>> : dep \in Get(dm, m) \ {m}} : m \in KeySet(dm)}

\* The edges _sorted_dependency_map adds for a dependency map dm, whose
\* values are sets of modules: None -> module for a module without
\* dependencies, dep -> module for each dependency.
GraphEdges(dm) ==
    {<<NoneNode, m>> : m \in {k \in KeySet(dm) : Get(dm, k) = {}}}
        \cup UNION {{<<dep, m>> : dep \in Get(dm, m)} : m \in KeySet(dm)}

GraphNodes(E) == {e[1] : e \in E} \cup {e[2] : e \in E}

RECURSIVE CyclesAlong(_, _)
\* The elementary cycles of E that start with the simple path `path`.
CyclesAlong(E, path) ==
    LET last == path[Len(path)]
        closes == IF <<last, path[1]>> \in E THEN {path} ELSE {}
        onward == {e[2] : e \in {x \in E : x[1] = last /\ x[2] \notin Range(path)}}
    IN closes \cup UNION {CyclesAlong(E, Append(path, n)) : n \in onward}

SimpleCyclesAsEdges(E) == {<<e[1], e[2]>> : e \in E}

\* nx.simple_cycles(graph): every elementary cycle, as the list of its nodes.
SimpleCycles(E) == UNION {CyclesAlong(E, <<n>>) : n \in GraphNodes(E)}

RECURSIVE TopologicalSortsFrom(_, _, _)
\* The topological orders of the nodes N under E that start with `done`.
TopologicalSortsFrom(E, N, done) ==
    LET ready == {n \in N \ Range(done) :
                    \A e \in E : e[2] = n => e[1] \in Range(done)}
    IN IF Range(done) = N THEN {done}
       ELSE UNION {TopologicalSortsFrom(E, N, Append(done, n)) : n \in ready}

\* nx.topological_sort(graph): some topological order of the graph's nodes.
TopologicalSorts(E) == TopologicalSortsFrom(E, GraphNodes(E), <<>>)

\* _sorted_dependency_map(dependency_map, operation): how it can end. It
\* raises DependencyLoop with the first cycle nx.simple_cycles yields, raises
\* KeyError when the topological order holds a node that is no key of the
\* map, and else returns the keys in a topological order, None left out.
SortedDependencyMap(dm) ==
    LET E == GraphEdges(dm) IN
    IF SimpleCycles(E) # {}
    THEN {[kind |-> "DependencyLoop", loop |-> c, sorted |-> <<>>] : c \in SimpleCycles(E)}
    ELSE IF ~(GraphNodes(E) \ {NoneNode} \subseteq KeySet(dm))
         THEN {[kind |-> "KeyError", loop |-> <<>>, sorted |-> <<>>]}
         ELSE {[kind |-> "sorted", loop |-> <<>>,
                sorted |-> SelectSeq(t, LAMBDA n : n # NoneNode)] :
                    t \in TopologicalSorts(E)}

(***************************************************************************)
(* initializer.py: _init and what it calls                                 *)
(***************************************************************************)
\* The most lines of confdict['score.init']['modules'].
MaxModules == 3

\* Fully-qualified module names, as their dot-separated segments.
ModuleNames == {<<"p", "a">>, <<"q", "a">>, <<"p", "b">>, <<"p", "c">>}

\* The module _collect_dependencies skips.
ScoreInit == <<"score", "init">>

Param(name, optional) == [name |-> name, optional |-> optional]

\* The parameter lists, the confdict parameter left out, that the init
\* functions of the modules are given here.
Signatures ==
    { <<>>,
      <<Param("a", FALSE)>>,
      <<Param("b", FALSE)>>,
      <<Param("c", FALSE)>>,
      <<Param("b", FALSE), Param("c", FALSE)>>,
      <<Param("x", FALSE)>>,
      <<Param("b", TRUE)>> }

\* What importing a module and inspecting its init can give.
ModuleInfos ==
    {[kind |-> k, sig |-> <<>>] : k \in {"unlocatable", "noinit", "notcallable"}}
        \cup {[kind |-> "ok", sig |-> s] : s \in Signatures}

\* The lists of at most MaxModules different module names.
ConfigLists ==
    UNION {{l \in [1..n -> ModuleNames] : \A i, j \in 1..n : l[i] = l[j] => i = j} :
            n \in 0..MaxModules}

(***************************************************************************)
(*   hasModulesKey, modconf  confdict['score.init']['modules'], parsed     *)
(*   modinfo       per configured module: what import_module and           *)
(*                 signature(module.init) give                             *)
(*   ipc           where _init is: "off" (not called), "init", "collect",  *)
(*                 "sort", "setup", "done"                                 *)
(*   modules       the dict short name -> module name of _init             *)
(*   scanIdx, missing, dependency_map  the loop of _collect_dependencies   *)
(*   sortedModules, setupIdx, initialized  the loop of _init; a configured *)
(*                 module object is the number of the init call that       *)
(*                 returned it                                             *)
(*   calls         every call of a module's init so far: module, kwargs    *)
(*   iresult       how _init ended                                         *)
(***************************************************************************)
NoResult == [kind |-> "none", modules |-> <<>>, deps |-> <<>>]

InitLocals ==
    /\ modules = <<>>
    /\ scanIdx = 0
    /\ missing = <<>>
    /\ dependency_map = <<>>
    /\ sortedModules = <<>>
    /\ setupIdx = 0
    /\ initialized = <<>>
    /\ calls = <<>>
    /\ iresult = NoResult

\* _init is not called.
InitOff ==
    /\ hasModulesKey = FALSE
    /\ modconf = <<>>
    /\ modinfo = <<>>
    /\ ipc = "off"
    /\ InitLocals

\* _init is called on a confdict.
InitCalled ==
    /\ hasModulesKey \in BOOLEAN
    /\ modconf \in (IF hasModulesKey THEN ConfigLists ELSE {<<>>})
    /\ modinfo \in [Range(modconf) -> ModuleInfos]
    /\ ipc = "init"
    /\ InitLocals

\* line[line.rindex('.') + 1:]
ShortName(line) == line[Len(line)]

RECURSIVE ModulesOf(_)
\* The dict `modules` after the loop over the lines of modconf.
ModulesOf(lines) ==
    IF lines = <<>> THEN <<>>
    ELSE LET line == lines[Len(lines)] IN
         Put(ModulesOf(SubSeq(lines, 1, Len(lines) - 1)), ShortName(line), line)

\* _init ends by raising, or by returning the ConfiguredScore.
EndInit(kind, mods, missingDeps) ==
    /\ ipc' = "done"
    /\ iresult' = [kind |-> kind, modules |-> mods, deps |-> missingDeps]

\* _init up to the call of _collect_dependencies.
ParseModules ==
    /\ ipc = "init"
    /\ IF hasModulesKey
       THEN /\ modules' = ModulesOf(modconf)
            /\ scanIdx' = 1
            /\ ipc' = "collect"
            /\ iresult' = iresult
       ELSE /\ EndInit("ConfiguredScore", <<>>, <<>>)
            /\ UNCHANGED <<modules, scanIdx>>
    /\ UNCHANGED <<hasModulesKey, modconf, modinfo, missing, dependency_map,
                   sortedModules, setupIdx, initialized, calls>>
    /\ UNCHANGED <<solverVars, finVars>>

\* One iteration of the loop of _collect_dependencies.
CollectStep ==
    /\ ipc = "collect"
    /\ scanIdx <= Len(modules)
    /\ LET modname == modules[scanIdx].v IN
        IF modname = ScoreInit
        THEN /\ scanIdx' = scanIdx + 1
             /\ UNCHANGED <<missing, dependency_map, ipc, iresult>>
        ELSE IF modinfo[modname].kind = "unlocatable"
        THEN /\ missing' = Append(missing, modname)
             /\ scanIdx' = scanIdx + 1
             /\ UNCHANGED <<dependency_map, ipc, iresult>>
        ELSE IF modinfo[modname].kind \in {"noinit", "notcallable"}
        THEN /\ EndInit("InitializationError", <<modname>>, <<>>)
             /\ UNCHANGED <<missing, dependency_map, scanIdx>>
        ELSE /\ dependency_map' = Put(dependency_map, modname, modinfo[modname].sig)
             /\ scanIdx' = scanIdx + 1
             /\ UNCHANGED <<missing, ipc, iresult>>
    /\ UNCHANGED <<hasModulesKey, modconf, modinfo, modules, sortedModules,
                   setupIdx, initialized, calls>>
    /\ UNCHANGED <<solverVars, finVars>>

\* newdeps of _remove_missing_optional_dependencies for one parameter list:
\* the module of every parameter whose name is a key of `modules`.
NewDeps(mods, sig) ==
    LET found == SelectSeq(sig, LAMBDA p : p.name \in KeySet(mods))
    IN [i \in DOMAIN found |-> Get(mods, found[i].name)]

\* The parameters of one list that are reported missing: no key of `modules`
\* and without a default.
MissingOf(mods, sig) ==
    SelectSeq(sig, LAMBDA p : ~(p.name \in KeySet(mods)) /\ ~p.optional)

RECURSIVE NoteMissing(_, _, _)
\* missing[dependency].append(name) for each parameter of the list ps.
NoteMissing(acc, ps, name) ==
    IF ps = <<>> THEN acc
    ELSE LET dependency == ps[1].name
             sofar == IF dependency \in KeySet(acc) THEN Get(acc, dependency) ELSE <<>>
         IN NoteMissing(Put(acc, dependency, Append(sofar, name)), Tail(ps), name)

RECURSIVE MissingDependencies(_, _, _)
\* The dict `missing` after the loop over the first n entries of dm.
MissingDependencies(mods, dm, n) ==
    IF n = 0 THEN <<>>
    ELSE NoteMissing(MissingDependencies(mods, dm, n - 1),
                     MissingOf(mods, dm[n].v), dm[n].k)

\* dependency_map after the loop of _remove_missing_optional_dependencies.
ResolvedMap(mods, dm) ==
    [i \in DOMAIN dm |-> [k |-> dm[i].k, v |-> NewDeps(mods, dm[i].v)]]

\* The end of _collect_dependencies: the missing modules are reported, or
\* _remove_missing_optional_dependencies runs.
CollectEnd ==
    /\ ipc = "collect"
    /\ scanIdx > Len(modules)
    /\ IF missing # <<>>
       THEN /\ EndInit("MissingModules", missing, <<>>)
            /\ UNCHANGED dependency_map
       ELSE LET lacking == MissingDependencies(modules, dependency_map, Len(dependency_map))
            IN /\ dependency_map' = ResolvedMap(modules, dependency_map)
               /\ IF lacking # <<>>
                  THEN EndInit("MissingDependencies", <<>>, lacking)
                  ELSE ipc' = "sort" /\ iresult' = iresult
    /\ UNCHANGED <<hasModulesKey, modconf, modinfo, modules, scanIdx, missing,
                   sortedModules, setupIdx, initialized, calls>>
    /\ UNCHANGED <<solverVars, finVars>>

\* A dependency map with each list of dependencies as a set.
DepSets(dm) == [i \in DOMAIN dm |-> [k |-> dm[i].k, v |-> Range(dm[i].v)]]

\* _sorted_dependency_map(dependency_map, 'initialization') in _init.
SortInit ==
    /\ ipc = "sort"
    /\ \E r \in SortedDependencyMap(DepSets(dependency_map)) :
        IF r.kind = "sorted"
        THEN /\ sortedModules' = r.sorted
             /\ setupIdx' = 1
             /\ ipc' = "setup"
             /\ iresult' = iresult
        ELSE /\ EndInit(r.kind, r.loop, <<>>)
             /\ UNCHANGED <<sortedModules, setupIdx>>
    /\ UNCHANGED <<hasModulesKey, modconf, modinfo, modules, scanIdx, missing,
                   dependency_map, initialized, calls>>
    /\ UNCHANGED <<solverVars, finVars>>

\* next(k for k, v in modules.items() if v == dep)
ArgName(mods, dep) ==
    mods[CHOOSE i \in DOMAIN mods :
            mods[i].v = dep /\ \A j \in 1..(i - 1) : mods[j].v # dep].k

\* kwargs of one init call: the object of every dependency under its
\* argument name.
Kwargs(mods, done, moduleDeps) ==
    {[arg |-> ArgName(mods, dep), obj |-> Get(done, dep)] : dep \in Range(moduleDeps)}

\* One iteration of the loop of _init: the module's init is called, and what
\* it returns is a ConfiguredModule or not.
SetupStep ==
    /\ ipc = "setup"
    /\ setupIdx <= Len(sortedModules)
    /\ LET module == sortedModules[setupIdx]
           module_dependencies == Get(dependency_map, module)
       IN
        IF ~(Range(module_dependencies) \subseteq KeySet(initialized))
        THEN /\ EndInit("KeyError", <<module>>, <<>>)
             /\ UNCHANGED <<calls, initialized, setupIdx>>
        ELSE /\ calls' = Append(calls, [module |-> module,
                                       kwargs |-> Kwargs(modules, initialized,
                                                         module_dependencies)])
             /\ \E isConfiguredModule \in BOOLEAN :
                    IF isConfiguredModule
                    THEN /\ initialized' = Put(initialized, module, Len(calls) + 1)
                         /\ setupIdx' = setupIdx + 1
                         /\ UNCHANGED <<ipc, iresult>>
                    ELSE /\ EndInit("InitializationError", <<module>>, <<>>)
                         /\ UNCHANGED <<initialized, setupIdx>>
    /\ UNCHANGED <<hasModulesKey, modconf, modinfo, modules, scanIdx, missing,
                   dependency_map, sortedModules>>
    /\ UNCHANGED <<solverVars, finVars>>

\* return ConfiguredScore(confdict, initialized)
SetupEnd ==
    /\ ipc = "setup"
    /\ setupIdx > Len(sortedModules)
    /\ EndInit("ConfiguredScore", <<>>, <<>>)
    /\ UNCHANGED <<hasModulesKey, modconf, modinfo, modules, scanIdx, missing,
                   dependency_map, sortedModules, setupIdx, initialized, calls>>
    /\ UNCHANGED <<solverVars, finVars>>

(***************************************************************************)
(* initializer.py: ConfiguredScore._finalize                               *)
(***************************************************************************)
\* The most modules of the ConfiguredScore that is finalized.
MaxAggregate == 2

ModuleList == <<(<<"p", "a">>), (<<"p", "b">>), (<<"p", "c">>), (<<"q", "a">>)>>

\* The modules a finalized ConfiguredScore can hold.
AggregateNames == {ModuleList[i] : i \in 1..MaxAggregate}

\* A module name that is no key of self._modules.
UnknownModule == <<"p", "z">>

\* The module names that are no keys of self._modules.
UnknownModules == {UnknownModule, <<"q", "z">>}

\* The lists of different modules: self._modules in its order, which is the
\* order in which _init filled `initialized`.
AggregateLists ==
    UNION {{l \in [1..n -> AggregateNames] : \A i, j \in 1..n : l[i] = l[j] => i = j} :
            n \in 0..MaxAggregate}

\* What a module's _finalize does: it returns on its first call, or it raises
\* AwaitFinalization(awaits) on its first call and then, called again,
\* returns or raises AwaitFinalization again.
Scripts ==
    {[defers |-> FALSE, awaits |-> {}, again |-> FALSE]}
        \cup {[defers |-> TRUE, awaits |-> w, again |-> g] :
                w \in SUBSET (AggregateNames \cup UnknownModules), g \in BOOLEAN}

NoScript == [m \in {} |-> 0]

NoFinalizeResult ==
    [kind |-> "none", reason |-> "", module |-> <<>>, names |-> {}, loop |-> <<>>]

FinalizeLocals ==
    /\ script = NoScript
    /\ finalized = {}
    /\ deferred = <<>>
    /\ retryOrder = <<>>
    /\ attempts = <<>>
    /\ fresult = NoFinalizeResult

\* _finalize is not called.
FinalizeOff ==
    /\ score_modules = <<>>
    /\ fpc = "off"
    /\ fidx = 0
    /\ FinalizeLocals

\* _finalize is called on a ConfiguredScore with the modules score_modules.
FinalizeCalled ==
    /\ score_modules \in AggregateLists
    /\ fpc = "pass1"
    /\ fidx = 1
    /\ FinalizeLocals

\* _finalize ends: it returns, or raises.
EndFinalize(kind, reason, module, names, cycle) ==
    /\ fpc' = "done"
    /\ fresult' = [kind |-> kind, reason |-> reason, module |-> module,
                   names |-> names, loop |-> cycle]

ItemFromTheEnd(mods, i) == mods[Len(mods) + 1 - i]

\* The i-th item of `for name, conf in self._modules.items()`.
Item(mods, i) == mods[i]

EmptyWaitSetNever(awaits) == FALSE

\* `if not e.modules:`
EmptyWaitSet(awaits) == awaits = {}

UnknownsOfFirstLookOnly(awaits, configured) ==
    IF awaits \ configured = {} THEN {}
    ELSE {CHOOSE n \in awaits \ configured : TRUE}

\* set(e.modules) - set(self._modules.keys())
Unknowns(awaits, configured) == awaits \ configured

\* The modules whose _finalized is set, after the pass-1 attempt of `name`
\* with the script s.
FinalizedAfter(done, name, s) == IF s.defers THEN done ELSE done \cup {name}

\* One iteration of the first loop of _finalize: the module's _finalize is
\* called, and returns or raises AwaitFinalization.
FinalizeAttempt ==
    /\ fpc = "pass1"
    /\ fidx <= Len(score_modules)
    /\ LET name == Item(score_modules, fidx) IN
       \E s \in Scripts :
        /\ script' = script @@ (name :> s)
        /\ attempts' = Append(attempts, [pass |-> 1, module |-> name])
        /\ finalized' = FinalizedAfter(finalized, name, s)
        /\ IF ~s.defers
           THEN /\ fidx' = fidx + 1
                /\ UNCHANGED <<deferred, fpc, fresult>>
           ELSE IF EmptyWaitSet(s.awaits)
           THEN /\ EndFinalize("InitializationError", "empty", name, {}, <<>>)
                /\ UNCHANGED <<deferred, fidx>>
           ELSE IF Unknowns(s.awaits, Range(score_modules)) # {}
           THEN /\ EndFinalize("InitializationError", "unknown", name,
                               Unknowns(s.awaits, Range(score_modules)), <<>>)
                /\ UNCHANGED <<deferred, fidx>>
           ELSE /\ deferred' = Put(deferred, name, s.awaits)
                /\ fidx' = fidx + 1
                /\ UNCHANGED <<fpc, fresult>>
    /\ UNCHANGED <<score_modules, retryOrder>>
    /\ UNCHANGED <<solverVars, initVars>>

\* After the first loop: _sorted_dependency_map(dependency_map,
\* 'finalization') is evaluated for the second loop.
FinalizeSort ==
    /\ fpc = "pass1"
    /\ fidx > Len(score_modules)
    /\ \E r \in SortedDependencyMap(deferred) :
        IF r.kind = "sorted"
        THEN /\ retryOrder' = r.sorted
             /\ fidx' = 1
             /\ fpc' = "pass2"
             /\ fresult' = fresult
        ELSE /\ EndFinalize(r.kind, "", <<>>, {}, r.loop)
             /\ UNCHANGED <<retryOrder, fidx>>
    /\ UNCHANGED <<score_modules, script, finalized, deferred, attempts>>
    /\ UNCHANGED <<solverVars, initVars>>

\* The second loop of _finalize: its next iteration (the module's _finalize
\* is called again), or its end, with which _finalize returns.
FinalizeRetry ==
    /\ fpc = "pass2"
    /\ IF fidx <= Len(retryOrder)
       THEN LET name == retryOrder[fidx] IN
            /\ attempts' = Append(attempts, [pass |-> 2, module |-> name])
            /\ IF script[name].again
               THEN /\ EndFinalize("InitializationError", "changed", name, {}, <<>>)
                    /\ UNCHANGED <<finalized, fidx>>
               ELSE /\ finalized' = finalized \cup {name}
                    /\ fidx' = fidx + 1
                    /\ UNCHANGED <<fpc, fresult>>
       ELSE /\ EndFinalize("returned", "", <<>>, {}, <<>>)
            /\ UNCHANGED <<attempts, finalized, fidx>>
    /\ UNCHANGED <<score_modules, script, deferred, retryOrder>>
    /\ UNCHANGED <<solverVars, initVars>>

(***************************************************************************)
(* Specifications                                                          *)
(***************************************************************************)
\* The solver under add_dependency, remove_dependency and solve().
Init == SolverInit /\ InitOff /\ FinalizeOff

Next ==
    \/ \E from \in Nodes, to \in Nodes \cup {NoNode} :
        AddDependency(from, to) /\ UNCHANGED hist
    \/ \E from \in Nodes, to \in Nodes :
        RemoveDependency(from, to) /\ UNCHANGED hist
    \/ SolveBegin
    \/ SeedStep
    \/ SeedEnd
    \/ PeelStep
    \/ PassEnd
    \/ Check
    \/ WalkStep

Spec == Init /\ [][Next]_vars

\* The solver brought into any state by add_dependency and remove_dependency,
\* and then one remembered add_dependency(from, to) / remove_dependency(from,
\* to) pair.
NextQueries ==
    \/ \E from \in Nodes, to \in Nodes \cup {NoNode} :
        hist.phase = "none" /\ AddDependency(from, to) /\ UNCHANGED hist
    \/ \E from \in Nodes, to \in Nodes :
        hist.phase = "none" /\ RemoveDependency(from, to) /\ UNCHANGED hist
    \/ \E from \in Nodes, to \in Nodes : RecordedAdd(from, to)
    \/ RecordedRemove

SpecQueries == Init /\ [][NextQueries]_vars

\* The solver brought into any state by add_dependency and remove_dependency,
\* then solve(), and solve() once more on what the first call left.
NextSolveTwice ==
    \/ \E from \in Nodes, to \in Nodes \cup {NoNode} :
        pc = "idle" /\ AddDependency(from, to) /\ UNCHANGED hist
    \/ \E from \in Nodes, to \in Nodes :
        pc = "idle" /\ RemoveDependency(from, to) /\ UNCHANGED hist
    \/ pc = "idle" /\ SolveBegin
    \/ SolveAgain
    \/ SeedStep
    \/ SeedEnd
    \/ PeelStep
    \/ PassEnd
    \/ Check
    \/ WalkStep

SpecSolveTwice == Init /\ [][NextSolveTwice]_vars

\* One step of a running solve().
SolveStep ==
    \/ SeedStep
    \/ SeedEnd
    \/ PeelStep
    \/ PassEnd
    \/ Check
    \/ WalkStep

\* The solver brought into any state by add_dependency, then one solve().
NextSolveOnce ==
    \/ \E from \in Nodes, to \in Nodes \cup {NoNode} :
        pc = "idle" /\ AddDependency(from, to) /\ UNCHANGED hist
    \/ pc = "idle" /\ SolveBegin
    \/ SeedStep
    \/ SeedEnd
    \/ PeelStep
    \/ PassEnd
    \/ Check
    \/ WalkStep

SpecSolveOnce == Init /\ [][NextSolveOnce]_vars

\* One call of _init, on any confdict.
InitOfInit == SolverInit /\ InitCalled /\ FinalizeOff

NextInit ==
    \/ ParseModules
    \/ CollectStep
    \/ CollectEnd
    \/ SortInit
    \/ SetupStep
    \/ SetupEnd

SpecInit == InitOfInit /\ [][NextInit]_vars

\* One call of ConfiguredScore._finalize, on any ConfiguredScore.
InitOfFinalize == SolverInit /\ InitOff /\ FinalizeCalled

NextFinalize ==
    \/ FinalizeAttempt
    \/ FinalizeSort
    \/ FinalizeRetry

SpecFinalize == InitOfFinalize /\ [][NextFinalize]_vars

(***************************************************************************)
(* Properties of the solver                                                *)
(***************************************************************************)
Successors(d, n) == IF n \in DOMAIN d THEN d[n] ELSE {}

RECURSIVE ReachableFrom(_, _, _)
\* The nodes reached from the set S by at most k further edges of d.
ReachableFrom(d, S, k) ==
    IF k = 0 THEN S
    ELSE ReachableFrom(d, S \cup UNION {Successors(d, n) : n \in S}, k - 1)

\* n depends on itself along one or more edges of d.
OnCycle(d, n) == n \in ReachableFrom(d, Successors(d, n), Cardinality(AllNodes(d)))

HasCycle(d) == \E n \in DOMAIN d : OnCycle(d, n)

SolveEnded == pc \in {"returned", "raised", "crashed"}

\* C1: on an acyclic map solve() returns (it does not fail), the sequence it
\* returns contains every tracked node and every node that is only referenced
\* as a dependency, and every occurrence of a node comes after every
\* occurrence of each node it depends on.
C1_SolveOrdersEveryNode ==
    (SolveEnded /\ ~HasCycle(pre)) =>
        /\ pc = "returned"
        /\ AllNodes(pre) \subseteq Range(sorted_)
        /\ \A n \in DOMAIN pre : \A m \in pre[n] :
            \A i, j \in DOMAIN sorted_ :
                (sorted_[i] = n /\ sorted_[j] = m) => j < i

\* solve() has returned on a map with a chain a -> b -> c.
C1_Witness ==
    /\ pc = "returned"
    /\ ~HasCycle(pre)
    /\ \E a, b, c \in Nodes :
        /\ a \in DOMAIN pre /\ b \in DOMAIN pre
        /\ b \in pre[a] /\ c \in pre[b]

\* C2: the sequence solve() returns on an acyclic map is a permutation of
\* the node set: every tracked node and every dependency-only node occurs in
\* it exactly once.
C2_SolveReturnsPermutation ==
    pc = "returned" =>
        /\ \A n \in AllNodes(pre) : Occurrences(sorted_, n) = 1
        /\ Len(sorted_) = Cardinality(AllNodes(pre))

\* C3: on a map with a cycle (a self-edge, or a cycle in part of the graph)
\* solve() ends by raising the cycle-detected error: it neither returns an
\* ordering nor ends in another failure.
C3_CycleMakesSolveRaise ==
    (SolveEnded /\ HasCycle(pre)) => pc = "raised"

\* solve() has raised on a map of which one part is cyclic while a node with
\* dependencies of its own was resolved.
C3_Witness ==
    /\ pc = "raised"
    /\ HasCycle(pre)
    /\ \E n \in DOMAIN pre : pre[n] # {} /\ n \in Range(sorted_)

\* C4: the path carried by the cycle-detected error follows edges of the map
\* as it was before solve() was called, and it closes on its starting node:
\* its last node is its first node.
C4_WitnessClosesOnStart ==
    pc = "raised" =>
        /\ \A i \in 1..(Len(loop) - 1) :
            loop[i] \in DOMAIN pre /\ loop[i + 1] \in pre[loop[i]]
        /\ loop[Len(loop)] = loop[1]

\* add_dependency(from, to) directly followed by remove_dependency(from, to).
AddRemoveDone == hist.phase = "removed"

\* C5 as stated: after add_dependency(from, to) and remove_dependency(from,
\* to) the three queries answer for all nodes as they did before the add.
C5_AddRemoveRestoresQueries ==
    AddRemoveDone =>
        \A n, m \in Nodes :
            /\ DirectDependencies(deps, n) = DirectDependencies(hist.deps0, n)
            /\ HasDirectDependency(deps, n, m) = HasDirectDependency(hist.deps0, n, m)
            /\ DirectDependents(order, deps, n) = DirectDependents(hist.order0, hist.deps0, n)

\* C5 as amended: when from did not already depend on to, the add followed by
\* the remove leaves direct_dependencies and has_direct_dependency as they
\* were for all nodes, and direct_dependents(n) as it was for every n except
\* a from that was not tracked before the add.
C5_AddRemoveOfNewEdgeRestoresQueries ==
    (AddRemoveDone /\ ~HasDirectDependency(hist.deps0, hist.from, hist.to)) =>
        \A n, m \in Nodes :
            /\ DirectDependencies(deps, n) = DirectDependencies(hist.deps0, n)
            /\ HasDirectDependency(deps, n, m) = HasDirectDependency(hist.deps0, n, m)
            /\ (n # hist.from \/ hist.from \in DOMAIN hist.deps0) =>
                DirectDependents(order, deps, n) = DirectDependents(hist.order0, hist.deps0, n)

\* A new edge was added to and removed from a node that has other
\* dependencies and dependents.
C5_Witness ==
    /\ AddRemoveDone
    /\ ~HasDirectDependency(hist.deps0, hist.from, hist.to)
    /\ hist.from \in DOMAIN hist.deps0
    /\ hist.deps0[hist.from] # {}
    /\ DirectDependents(order, deps, hist.from) # <<>>


\* C17: for a tracked node n, a node m is among direct_dependents(n) exactly
\* when n is among direct_dependencies(m), m = n included; for an untracked
\* node n both queries give nothing.
C17_DependentsInvertDependencies ==
    \A n \in Nodes :
        IF n \in DOMAIN deps
        THEN \A m \in Nodes :
                (m \in Range(DirectDependents(order, deps, n)))
                    <=> (n \in DirectDependencies(deps, m))
        ELSE /\ DirectDependents(order, deps, n) = <<>>
             /\ DirectDependencies(deps, n) = {}

\* The second of two solve() calls has ended.
SecondSolveEnded == SolveEnded /\ hist.phase # "none"

\* C19: when solve() has ended, by returning or by raising DependencyLoop,
\* direct_dependencies and has_direct_dependency answer for all nodes as they
\* did when it was called; and a second solve() on the solver as the first one
\* left it ends as the first did, returning the same set of nodes if that
\* returned.
C19_SolveIsPureQuery ==
    /\ SolveEnded =>
        \A n, m \in Nodes :
            /\ DirectDependencies(deps, n) = DirectDependencies(pre, n)
            /\ HasDirectDependency(deps, n, m) = HasDirectDependency(pre, n, m)
    /\ SecondSolveEnded =>
        /\ pc = hist.phase
        /\ pc = "returned" => Range(sorted_) = Range(hist.order0)

\* solve() is running.
SolveRunning == pc \in {"seed", "for", "check", "walk"}

\* When the peeling loop has stopped with unresolved nodes left, each of them
\* has a dependency left and all its dependencies left are unresolved nodes
\* with an entry; the walk takes no edge from an empty set or from a node
\* without entry, and it takes at most as many edges as nodes are unresolved.
WalkIsSafe ==
    /\ pc # "crashed"
    /\ (pc = "check" /\ dkeys # <<>>) =>
        \A item \in Range(dkeys) :
            /\ item \in DOMAIN deps
            /\ deps[item] # {}
            /\ deps[item] \subseteq Range(dkeys)
    /\ pc \in {"walk", "raised"} => Len(loop) - 1 <= Len(dkeys)

\* The edges left in the working dict of solve(), and its keys.
UnresolvedEdges ==
    Cardinality({e \in Range(dkeys) \X Nodes : e[2] \in deps[e[1]]})

\* A number that every step of a running solve() makes smaller: the steps
\* left in the first loop; in the peeling loop the edges and keys left, then
\* whether the pass has updated, then the items left in the pass; after it the
\* edges left for the walk.
StepsLeft ==
    LET walkMost == MaxEdges + 4
        passWeight == MaxNodes + 2
        peelMost == walkMost + (2 * (MaxEdges + MaxNodes) + 1) * passWeight + passWeight
    IN CASE pc = "seed" -> peelMost + 1 + (Len(order) + 1 - idx)
         [] pc = "for" ->
                walkMost
                + (2 * (UnresolvedEdges + Len(dkeys)) + (IF updated THEN 1 ELSE 0))
                    * passWeight
                + (Len(passList) + 1 - idx)
         [] pc = "check" -> UnresolvedEdges + 3
         [] pc = "walk" -> UnresolvedEdges + 1
         [] OTHER -> 0

\* C20: solve() terminates: while it runs a next step is always possible and
\* every step makes the natural number StepsLeft smaller; it ends by
\* returning or by raising DependencyLoop, and its walk is safe in the sense
\* of WalkIsSafe.
C20_SolveTerminatesAndWalkIsSafe ==
    /\ []WalkIsSafe
    /\ [](SolveRunning => (StepsLeft > 0 /\ ENABLED SolveStep))
    /\ [][SolveRunning => StepsLeft' < StepsLeft]_vars

\* C20 happens: the walk ended after as many edges as nodes were unresolved,
\* with a second pass of the peeling loop before it.
C20_Witness ==
    /\ pc = "raised"
    /\ Len(dkeys) >= 2
    /\ Len(loop) - 1 = Len(dkeys)
    /\ sorted_ # <<>>

(***************************************************************************)
(* Properties of _init                                                     *)
(***************************************************************************)
\* The short names of the configured modules.
ShortNames == {ShortName(line) : line \in Range(modconf)}

\* The init calls made for the module m.
CallsOf(m) == {i \in DOMAIN calls : calls[i].module = m}

InitSucceeded == ipc = "done" /\ iresult.kind = "ConfiguredScore"

\* C6: when _init returns the ConfiguredScore, the init of every configured
\* module was called exactly once; every parameter of it that is named like
\* the short name of a configured module was passed, and its value is the
\* object returned by an earlier init call of a module with that short name;
\* nothing else was passed.
C6_SetupOnceAfterDependencies ==
    InitSucceeded =>
        \A m \in Range(modconf) :
            /\ Cardinality(CallsOf(m)) = 1
            /\ \A i \in CallsOf(m) :
                /\ \A k \in DOMAIN modinfo[m].sig :
                    LET p == modinfo[m].sig[k] IN
                    p.name \in ShortNames =>
                        \E kw \in calls[i].kwargs :
                            /\ kw.arg = p.name
                            /\ kw.obj < i
                            /\ ShortName(calls[kw.obj].module) = p.name
                /\ \A kw \in calls[i].kwargs :
                    \E k \in DOMAIN modinfo[m].sig : modinfo[m].sig[k].name = kw.arg

\* The pairs <<module, parameter name>> of a configured module and a
\* parameter of its init that has no default and is no short name of a
\* configured module.
LackingPairs ==
    UNION {{<<m, modinfo[m].sig[k].name>> :
                k \in {k \in DOMAIN modinfo[m].sig :
                            /\ ~modinfo[m].sig[k].optional
                            /\ ~(modinfo[m].sig[k].name \in ShortNames)}} :
            m \in {m \in Range(modconf) : modinfo[m].kind = "ok"}}

\* The pairs <<module, parameter name>> a MissingDependencies error reports.
ReportedPairs ==
    UNION {{<<iresult.deps[i].v[j], iresult.deps[i].k>> : j \in DOMAIN iresult.deps[i].v} :
            i \in DOMAIN iresult.deps}

\* C7: when every configured module can be imported and has a callable init,
\* and one of them has a parameter without default that is no short name of a
\* configured module, _init ends with the MissingDependencies error, which
\* reports exactly the missing names with the modules that require them, and
\* no init was called.
C7_MissingDependenciesReported ==
    ( /\ ipc = "done"
      /\ \A m \in Range(modconf) : modinfo[m].kind = "ok"
      /\ LackingPairs # {} )
    => /\ iresult.kind = "MissingDependencies"
       /\ ReportedPairs = LackingPairs
       /\ calls = <<>>

\* The configured modules that cannot be imported.
Unlocatable == {m \in Range(modconf) : modinfo[m].kind = "unlocatable"}

\* C8: when a configured module cannot be imported, _init ends with the
\* MissingModules error, which lists exactly the configured modules that
\* cannot be imported, and no init was called, whatever else is configured.
C8_MissingModulesReported ==
    (ipc = "done" /\ Unlocatable # {})
    => /\ iresult.kind = "MissingModules"
       /\ Range(iresult.modules) = Unlocatable
       /\ calls = <<>>

\* _collect_dependencies has returned: dependency_map maps every collected
\* module to the list of the modules it depends on.
CollectReturned ==
    \/ ipc \in {"sort", "setup"}
    \/ /\ ipc = "done"
       /\ \/ iresult.kind \in {"DependencyLoop", "KeyError"}
          \/ iresult.kind = "ConfiguredScore" /\ hasModulesKey
          \/ calls # <<>>

\* The modules the collected module m depends on.
DependsOn(m) == Range(Get(dependency_map, m))

RECURSIVE DependedOnFrom(_, _)
\* The modules the modules of S depend on, directly or in at most n steps.
DependedOnFrom(S, n) ==
    IF n = 0 THEN S
    ELSE DependedOnFrom(
            S \cup UNION {DependsOn(m) : m \in S \cap KeySet(dependency_map)}, n - 1)

\* Some collected module depends on itself, directly or through others.
MapHasCycle ==
    \E m \in KeySet(dependency_map) :
        m \in DependedOnFrom(DependsOn(m), Len(dependency_map))

\* The list l is a cycle of the collected map: its modules are different, each
\* is a dependency of the next one, and the last one of the first.
IsCycleOfMap(l) ==
    /\ l # <<>>
    /\ \A i, j \in DOMAIN l : l[i] = l[j] => i = j
    /\ \A i \in DOMAIN l :
        LET next == l[(i % Len(l)) + 1] IN
        next \in KeySet(dependency_map) /\ l[i] \in DependsOn(next)

\* C14: when the map _collect_dependencies returned has a cycle, a
\* self-dependency included, _init ends with DependencyLoop whose modules are
\* a cycle of that map, and no init was called.
C14_InitCycleIsReported ==
    (CollectReturned /\ ipc # "sort" /\ MapHasCycle)
    => /\ ipc = "done"
       /\ iresult.kind = "DependencyLoop"
       /\ IsCycleOfMap(iresult.modules)
       /\ calls = <<>>

\* C14 happens: a module that depends on itself was reported, with another
\* module configured.
C14_Witness ==
    /\ ipc = "done"
    /\ iresult.kind = "DependencyLoop"
    /\ Len(iresult.modules) = 1
    /\ Len(dependency_map) > 1
    /\ MapHasCycle

\* Two configured modules have the same short name.
ShortNameCollision ==
    \E x, y \in Range(modconf) : x # y /\ ShortName(x) = ShortName(y)

\* C18: when two configured modules have the same short name, _init ends
\* with an error; the ConfiguredScore it returns never lacks a configured
\* module.
C18_ShortNameCollisionIsRejected ==
    /\ (ipc = "done" /\ ShortNameCollision) => iresult.kind # "ConfiguredScore"
    /\ InitSucceeded => Range(modconf) \subseteq KeySet(initialized)

(***************************************************************************)
(* Properties of ConfiguredScore._finalize                                 *)
(***************************************************************************)
\* What the module m awaits: nothing, when its first _finalize returns.
Awaits(m) == IF script[m].defers THEN script[m].awaits ELSE {}

\* Every module was attempted in the first loop, and every deferral names a
\* non-empty set of configured modules.
PassOneCompleted ==
    /\ DOMAIN script = Range(score_modules)
    /\ \A m \in DOMAIN script :
        script[m].defers =>
            script[m].awaits # {} /\ script[m].awaits \subseteq Range(score_modules)

RECURSIVE AwaitedFrom(_, _)
\* The modules awaited by the modules of S, directly or in at most n steps.
AwaitedFrom(S, n) ==
    IF n = 0 THEN S
    ELSE AwaitedFrom(S \cup UNION {Awaits(m) : m \in S}, n - 1)

\* No module awaits itself, directly or through other deferring modules.
DeferralAcyclic ==
    \A m \in DOMAIN script :
        ~(m \in AwaitedFrom(Awaits(m), Cardinality(DOMAIN script)))

\* A module raises AwaitFinalization when its _finalize is called again.
DefersAgain(m) == script[m].defers /\ script[m].again

\* C9: when the first loop of _finalize completed, the deferrals are acyclic
\* and no module defers a second time, a module a that deferred with the
\* wait-set {b}, b finalized in the first loop, is attempted again in the
\* second loop, after b's attempt, and _finalize returns.
C9_DeferredModuleIsRetried ==
    ( /\ fpc = "done"
      /\ PassOneCompleted
      /\ DeferralAcyclic
      /\ \A m \in DOMAIN script : ~DefersAgain(m) )
    => \A a, b \in Range(score_modules) :
        (script[a].defers /\ script[a].awaits = {b} /\ ~script[b].defers) =>
            /\ \E i, j \in DOMAIN attempts :
                /\ attempts[i] = [pass |-> 2, module |-> a]
                /\ attempts[j] = [pass |-> 1, module |-> b]
                /\ j < i
            /\ a \in finalized
            /\ fresult.kind = "returned"

\* C10: when the first loop of _finalize completed, the deferrals are acyclic
\* and some module that deferred in the first loop defers again when it is
\* retried, _finalize ends with the InitializationError 'Module changed its
\* finalization dependencies' of such a module.
C10_SecondDeferralIsFatal ==
    ( /\ fpc = "done"
      /\ PassOneCompleted
      /\ DeferralAcyclic
      /\ \E m \in DOMAIN script : DefersAgain(m) )
    => /\ fresult.kind = "InitializationError"
       /\ fresult.reason = "changed"
       /\ DefersAgain(fresult.module)

\* The pass-1 attempts made so far, in their order.
PassOneAttempts ==
    LET first == SelectSeq(attempts, LAMBDA a : a.pass = 1)
    IN [i \in DOMAIN first |-> first[i].module]

\* Some module was attempted again, in the second loop.
RetryStarted == \E i \in DOMAIN attempts : attempts[i].pass = 2

\* C11: once a module's first _finalize has raised AwaitFinalization with a
\* non-empty wait-set that holds a name that is no configured module,
\* _finalize has ended with the InitializationError of that module that
\* lists exactly the unknown names of the wait-set; the module is not
\* finalized and not recorded as deferred, and no module is attempted again.
C11_UnknownDeferralTargetIsFatal ==
    \A m \in DOMAIN script :
        ( /\ script[m].defers
          /\ script[m].awaits # {}
          /\ script[m].awaits \ Range(score_modules) # {} )
        => /\ fpc = "done"
           /\ fresult.kind = "InitializationError"
           /\ fresult.reason = "unknown"
           /\ fresult.module = m
           /\ fresult.names = script[m].awaits \ Range(score_modules)
           /\ ~(m \in finalized)
           /\ ~(m \in KeySet(deferred))
           /\ ~RetryStarted
           /\ PassOneAttempts[Len(PassOneAttempts)] = m

\* C11 happens: a wait-set with two unknown names and a configured one was
\* reported, after an earlier module deferred with a well-formed wait-set.
C11_Witness ==
    /\ fpc = "done"
    /\ fresult.reason = "unknown"
    /\ Cardinality(fresult.names) = 2
    /\ script[fresult.module].awaits \cap Range(score_modules) # {}
    /\ deferred # <<>>

\* C12: once a module's first _finalize has raised AwaitFinalization with an
\* empty wait-set, _finalize has ended with the InitializationError 'empty
\* modules list' of that module; the module is not recorded as deferred and
\* not finalized, and no module is attempted again.
C12_EmptyDeferralSetIsFatal ==
    \A m \in DOMAIN script :
        (script[m].defers /\ script[m].awaits = {})
        => /\ fpc = "done"
           /\ fresult.kind = "InitializationError"
           /\ fresult.reason = "empty"
           /\ fresult.module = m
           /\ ~(m \in KeySet(deferred))
           /\ ~(m \in finalized)
           /\ ~RetryStarted
           /\ PassOneAttempts[Len(PassOneAttempts)] = m

\* C12 happens: the empty wait-set was raised by the second module, after the
\* first module's attempt.
C12_Witness ==
    /\ fpc = "done"
    /\ fresult.reason = "empty"
    /\ Len(attempts) = 2
    /\ fresult.module = score_modules[2]

\* C13: when _finalize returns, every module of the ConfiguredScore is
\* finalized; and when the first loop completed with well-formed deferrals
\* that are acyclic, and no module defers a second time, _finalize returns.
C13_SuccessFinalizesEveryModule ==
    /\ (fpc = "done" /\ fresult.kind = "returned")
        => finalized = Range(score_modules)
    /\ ( /\ fpc = "done"
         /\ PassOneCompleted
         /\ DeferralAcyclic
         /\ \A m \in DOMAIN script : ~DefersAgain(m) )
        => fresult.kind = "returned"

\* The list l is a cycle of the deferrals: its modules are different, each is
\* awaited by the next one, and the last one by the first.
IsCycleOfDeferrals(l) ==
    /\ l # <<>>
    /\ \A i, j \in DOMAIN l : l[i] = l[j] => i = j
    /\ \A i \in DOMAIN l : l[i] \in Awaits(l[(i % Len(l)) + 1])

\* C15: when the first loop of _finalize completed and the wait-sets of the
\* modules that deferred form a cycle, a module awaiting itself included,
\* _finalize ends with DependencyLoop, which carries a cycle of the
\* deferrals, and no module is attempted again.
C15_DeferralCycleIsReported ==
    ( /\ fpc \in {"pass2", "done"}
      /\ PassOneCompleted
      /\ ~DeferralAcyclic )
    => /\ fpc = "done"
       /\ fresult.kind = "DependencyLoop"
       /\ IsCycleOfDeferrals(fresult.loop)
       /\ ~RetryStarted
       /\ \A m \in KeySet(deferred) : ~(m \in finalized)

\* C15 happens: two modules awaited each other.
C15_Witness ==
    /\ fpc = "done"
    /\ fresult.kind = "DependencyLoop"
    /\ Len(fresult.loop) = 2
    /\ Len(deferred) = 2

\* The first loop of _finalize was ended by a malformed deferral.
PassOneAborted ==
    fpc = "done" /\ fresult.kind = "InitializationError"
                 /\ fresult.reason \in {"empty", "unknown"}

\* C16: the modules attempted in the first loop of _finalize are, in their
\* order and each once, the first modules of self._modules; only a malformed
\* deferral ends the loop early, so that after a well-formed deferral the
\* next module is attempted; and the second loop is reached only with every
\* module attempted, all attempts of the first loop preceding those of the
\* second.
C16_PassOneAttemptsEveryModuleInOrder ==
    /\ Len(PassOneAttempts) <= Len(score_modules)
    /\ PassOneAttempts = SubSeq(score_modules, 1, Len(PassOneAttempts))
    /\ (fpc = "pass1" => Len(PassOneAttempts) = fidx - 1)
    /\ (fpc \in {"pass2", "done"} /\ ~PassOneAborted)
        => PassOneAttempts = score_modules
    /\ PassOneAborted =>
        LET m == PassOneAttempts[Len(PassOneAttempts)] IN
        script[m].defers /\ (script[m].awaits = {}
                                \/ script[m].awaits \ Range(score_modules) # {})
    /\ \A i, j \in DOMAIN attempts :
        (attempts[i].pass = 1 /\ attempts[j].pass = 2) => i < j

\* C16 happens: the first module deferred with a well-formed wait-set, and
\* the second module was attempted after it.
C16_Witness ==
    /\ Len(score_modules) = 2
    /\ score_modules[1] \in KeySet(deferred)
    /\ PassOneAttempts = score_modules
=============================================================================
